---- MODULE Spec2Model ----
(***************************************************************************)
(* Model of QuadtreeAmogufier: the QuadtreeBuilder pool and the frame      *)
(* tasks of createVideoFrames, the sprite cache of Quadtree::GetLeaf, the  *)
(* tile partitioning of Quadtree::ProcessFrame(Image), the recursive       *)
(* decomposition of Quadtree::ProcessFrame(Image&, Rect), the policies     *)
(* SubdivisionBW / SubdivisionColor and Image::overlay.                    *)
(*                                                                         *)
(* The module holds one state machine per subsystem.  Each specification   *)
(* runs one of them and keeps the variables of the others at their idle    *)
(* values.                                                                 *)
(***************************************************************************)
EXTENDS Integers, Sequences, FiniteSets, TLC

(***************************************************************************)
(* Bounds                                                                  *)
(***************************************************************************)
\* number of animation frames found (frameBuilders.size()) is 1..MaxBuilders
MaxBuilders == 2
\* number of input frames found (tasks submitted) is 0..MaxTasks
MaxTasks == 3
\* the --repeat option ranges over 0..MaxRepeat
MaxRepeat == 2
\* the --threads option ranges over 1..MaxThreads
MaxThreads == 2

\* number of threads calling GetLeaf on one engine
MaxLeafThreads == 2
\* number of GetLeaf calls made on one engine
MaxLeafCalls == 3
\* leaf sizes requested from the cache are w x h with h <= w <= MaxLeafDim
MaxLeafDim == 2

Builders == 0 .. (MaxBuilders - 1)
Tasks == 1 .. MaxTasks
\* frames are (1..MaxDim) x (1..MaxDim) pixels
MaxDim == 4
\* leaf templates are (1..MaxLeafSide) x (1..MaxLeafSide) pixels
MaxLeafSide == 3
\* channel values lie in 0..MaxChan or in (255 - MaxChan)..255
MaxChan == 1
\* the --similarity option ranges over 0..MaxThreshold
MaxThreshold == 2

\* the --min-size option ranges over 0..MaxMinSize
MaxMinSize == 2
\* frames that are decomposed are (1..MaxFrameSide) x (1..MaxFrameSide)
MaxFrameSide == 3
\* recursion levels of ProcessFrame(Image&, Rect) the stack holds
MaxStack == 3
\* pixel channel values are 0 or MaxPixel
MaxPixel == 7
\* images handed to overlay are (1..MaxImageSide) x (1..MaxImageSide)
MaxImageSide == 2

LeafThreads == 1 .. MaxLeafThreads
LeafKeys == {k \in (1 .. MaxLeafDim) \X (1 .. MaxLeafDim) : k[2] <= k[1]}

VARIABLES
    \* ---- createVideoFrames / QuadtreeBuilder ----
    nBuilders,      \* frameBuilders.size()
    repeat,         \* getFrameBuilder capture: repeat
    repeatIndex,    \* getFrameBuilder capture: repeatIndex
    frameIndex,     \* getFrameBuilder capture: frameIndex
    threads,        \* size of the thread pool
    mUseCount,      \* QuadtreeBuilder::mUseCount, per builder
    mUses,          \* QuadtreeBuilder::mUses, per builder
    mAllowRelease,  \* QuadtreeBuilder::mAllowRelease, per builder
    mQuadtree,      \* QuadtreeBuilder::mQuadtree.has_value(), per builder
    built,          \* number of Quadtree constructions, per builder
    destroyed,      \* number of Quadtree destructions, per builder
    taskCount,      \* createVideoFrames local taskCount
    tasksDone,      \* std::atomic_int tasksDone
    cvMutex,        \* owner of cvMutex: "free", "main" or a task id
    subPc,          \* position of the submitting thread
    allowIdx,       \* position of the AllowRelease loop
    taskPc,         \* position of each task
    taskBuilder,    \* builder captured by each task (-1: none yet)
    taskGotTree,    \* ghost: builder->GetTree() has returned to the task
    \* ---- Quadtree::GetLeaf ----
    mLeafCache,     \* Quadtree::mLeafCache: key -> surface held (0: no entry)
    cacheReaders,   \* threads holding mCacheMutex shared
    cacheWriter,    \* thread holding mCacheMutex exclusively (0: none)
    leafPc,         \* position of each thread inside GetLeaf
    leafKey,        \* the size the thread's current call asks for
    leafCalls,      \* number of GetLeaf calls started on the engine
    leafLast,       \* what the thread's last completed call returned
    leafReturned,   \* every <<key, surface>> a call has returned so far
    resizeCount,    \* number of resizeFastNew executions, per key
    \* ---- Quadtree::ProcessFrame(Image) ----
    frameW,         \* frame.width()
    frameH,         \* frame.height()
    leafW,          \* mLeafImage.width()
    leafH,          \* mLeafImage.height()
    bounds,         \* local bounds (size and pos refer into it)
    horizontal,     \* local horizontal
    splitCount,     \* local splitCount
    step,           \* local step
    errStep,        \* local errStep
    err,            \* local err
    tileI,          \* loop counter i
    tiles,          \* the rectangles passed to ProcessFrame(frame, bounds)
    tilePc,         \* position inside ProcessFrame(Image)
    \* ---- SubdivisionChecker::Merge ----
    mode,           \* the policy: "bw" or "color"
    similarityThreshold, \* mParams.similarityThreshold
    quad,           \* the arguments tl, tr, bl, br
    merged,         \* the returned tuple (NoMerge before the call)
    \* ---- Quadtree::ProcessFrame(Image&, Rect) / RenderLeaf ----
    pixels,         \* the frame's RGB pixels, row by row
    original,       \* the frame's pixels on entry to ProcessFrame(Image)
    beyond,         \* what a read outside the pixel buffer or an undefined
                    \* conversion yields
    minSize,        \* mParams.minSize
    rendered,       \* the LeafData passed to RenderLeaf so far
    lastCall,       \* the last top-level ProcessFrame(frame, bounds) call
    \* ---- SubdivisionChecker::GetColor ----
    colorRect,      \* the argument r
    colorOut,       \* the returned color (NoColor before the call)
    \* ---- Image::overlay ----
    ovDst,          \* the destination image (*this)
    ovSrc,          \* the source image
    ovX,            \* the argument x
    ovY,            \* the argument y
    ovOut           \* the destination after the call (NoImage before it)

schedVars == <<nBuilders, repeat, repeatIndex, frameIndex, threads, mUseCount,
               mUses, mAllowRelease, mQuadtree, built, destroyed, taskCount,
               tasksDone, cvMutex, subPc, allowIdx, taskPc, taskBuilder,
               taskGotTree>>

cacheVars == <<mLeafCache, cacheReaders, cacheWriter, leafPc, leafKey,
               leafCalls, leafLast, leafReturned, resizeCount>>

tileVars == <<frameW, frameH, leafW, leafH, bounds, horizontal, splitCount,
              step, errStep, err, tileI, tiles, tilePc>>

mergeVars == <<mode, similarityThreshold, quad, merged>>

renderVars == <<pixels, original, beyond, minSize, rendered, lastCall>>

colorVars == <<colorRect, colorOut>>

overlayVars == <<ovDst, ovSrc, ovX, ovY, ovOut>>

vars == <<schedVars, cacheVars, tileVars, mergeVars, renderVars, colorVars,
          overlayVars>>

\* frame conditions: an operation of one subsystem leaves the others alone
SchedOnly == UNCHANGED <<cacheVars, tileVars, mergeVars, renderVars,
                         colorVars, overlayVars>>
CacheOnly == UNCHANGED <<schedVars, tileVars, mergeVars, renderVars,
                         colorVars, overlayVars>>
\* ProcessFrame(Image) renders into the frame it was given
TilesOnly == UNCHANGED <<schedVars, cacheVars, mergeVars, colorVars,
                         overlayVars>>
MergeOnly == UNCHANGED <<schedVars, cacheVars, tileVars, renderVars,
                         colorVars, overlayVars>>
ColorOnly == UNCHANGED <<schedVars, cacheVars, tileVars, mergeVars,
                         renderVars, overlayVars>>
OverlayOnly == UNCHANGED <<schedVars, cacheVars, tileVars, mergeVars,
                           renderVars, colorVars>>

(***************************************************************************)
(* QuadtreeBuilder                                                         *)
(***************************************************************************)

\* ReleaseImpl: the value of mQuadtree.has_value() after the call
ReleaseImplNoAllow(allow, uses, useCount, has) ==
    IF uses >= useCount THEN FALSE ELSE has

ReleaseImplNoCount(allow, uses, useCount, has) ==
    IF allow THEN FALSE ELSE has

ReleaseImplEither(allow, uses, useCount, has) ==
    IF allow \/ uses >= useCount THEN FALSE ELSE has

ReleaseImpl(allow, uses, useCount, has) ==
    IF allow /\ uses >= useCount THEN FALSE ELSE has

\* one more destruction when an engaged optional is reset
Destroy(b, before, after) ==
    IF before /\ ~after THEN [destroyed EXCEPT ![b] = @ + 1] ELSE destroyed

\* AddUse: ++mUseCount; ReleaseImpl()
AddUse(b) ==
    LET uc  == mUseCount[b] + 1
        has == ReleaseImpl(mAllowRelease[b], mUses[b], uc, mQuadtree[b])
    IN  /\ mUseCount' = [mUseCount EXCEPT ![b] = uc]
        /\ mQuadtree' = [mQuadtree EXCEPT ![b] = has]
        /\ destroyed' = Destroy(b, mQuadtree[b], has)
        /\ UNCHANGED <<mUses, mAllowRelease, built>>

\* the mUses that a constructing GetTree leaves behind
GetTreeKeepUses(uses) == uses

GetTreeUses(uses) == 0

\* GetTree: construct the engine if the optional is empty, mUses = 0
GetTree(b) ==
    IF ~mQuadtree[b]
    THEN /\ mQuadtree' = [mQuadtree EXCEPT ![b] = TRUE]
         /\ mUses' = [mUses EXCEPT ![b] = GetTreeUses(@)]
         /\ built' = [built EXCEPT ![b] = @ + 1]
         /\ UNCHANGED <<mUseCount, mAllowRelease, destroyed>>
    ELSE UNCHANGED <<mQuadtree, mUses, built, mUseCount, mAllowRelease, destroyed>>

\* Release: ++mUses; ReleaseImpl()
ReleaseCountsTwice(b) ==
    LET u   == mUses[b] + 2
        has == ReleaseImpl(mAllowRelease[b], u, mUseCount[b], mQuadtree[b])
    IN  /\ mUses' = [mUses EXCEPT ![b] = u]
        /\ mQuadtree' = [mQuadtree EXCEPT ![b] = has]
        /\ destroyed' = Destroy(b, mQuadtree[b], has)
        /\ UNCHANGED <<mUseCount, mAllowRelease, built>>

Release(b) ==
    LET u   == mUses[b] + 1
        has == ReleaseImpl(mAllowRelease[b], u, mUseCount[b], mQuadtree[b])
    IN  /\ mUses' = [mUses EXCEPT ![b] = u]
        /\ mQuadtree' = [mQuadtree EXCEPT ![b] = has]
        /\ destroyed' = Destroy(b, mQuadtree[b], has)
        /\ UNCHANGED <<mUseCount, mAllowRelease, built>>

\* AllowRelease: mAllowRelease = true; ReleaseImpl()
AllowRelease(b) ==
    LET has == ReleaseImpl(TRUE, mUses[b], mUseCount[b], mQuadtree[b])
    IN  /\ mAllowRelease' = [mAllowRelease EXCEPT ![b] = TRUE]
        /\ mQuadtree' = [mQuadtree EXCEPT ![b] = has]
        /\ destroyed' = Destroy(b, mQuadtree[b], has)
        /\ UNCHANGED <<mUseCount, mUses, built>>

(***************************************************************************)
(* createVideoFrames: the submitting thread                                *)
(***************************************************************************)

\* getFrameBuilder: the captures after one call; frameIndex is the result
GetFrameBuilderNoRepeat(rep, ri, fi, n) ==
    LET fi1 == fi + 1
        fi2 == IF fi1 >= n THEN 0 ELSE fi1
    IN  [repeatIndex |-> ri + 1, frameIndex |-> fi2]

getFrameBuilder(rep, ri, fi, n) ==
    LET ri1 == IF ri >= rep THEN 0 ELSE ri
        fi1 == IF ri >= rep THEN fi + 1 ELSE fi
        fi2 == IF fi1 >= n THEN 0 ELSE fi1
    IN  [repeatIndex |-> ri1 + 1, frameIndex |-> fi2]

InitSched ==
    /\ nBuilders \in 1 .. MaxBuilders
    /\ repeat \in 0 .. MaxRepeat
    /\ threads \in 1 .. MaxThreads
    /\ repeatIndex = 0
    /\ frameIndex = 0
    /\ mUseCount = [b \in Builders |-> 0]
    /\ mUses = [b \in Builders |-> 0]
    /\ mAllowRelease = [b \in Builders |-> FALSE]
    /\ mQuadtree = [b \in Builders |-> FALSE]
    /\ built = [b \in Builders |-> 0]
    /\ destroyed = [b \in Builders |-> 0]
    /\ taskCount = 0
    /\ tasksDone = 0
    /\ cvMutex = "free"
    /\ subPc = "submit"
    /\ allowIdx = 0
    /\ taskPc = [t \in Tasks |-> "unsubmitted"]
    /\ taskBuilder = [t \in Tasks |-> -1]
    /\ taskGotTree = [t \in Tasks |-> FALSE]

\* one iteration of the submission loop whose input frame exists:
\* builder = getFrameBuilder() (with AddUse), pool.submit, ++taskCount
SubmitFrame ==
    /\ SchedOnly
    /\ subPc = "submit"
    /\ taskCount < MaxTasks
    /\ LET g == getFrameBuilder(repeat, repeatIndex, frameIndex, nBuilders)
           t == taskCount + 1
       IN  /\ repeatIndex' = g.repeatIndex
           /\ frameIndex' = g.frameIndex
           /\ AddUse(g.frameIndex)
           /\ taskBuilder' = [taskBuilder EXCEPT ![t] = g.frameIndex]
           /\ taskPc' = [taskPc EXCEPT ![t] = "queued"]
    /\ taskCount' = taskCount + 1
    /\ UNCHANGED <<nBuilders, repeat, threads, tasksDone, cvMutex, subPc,
                   allowIdx, taskGotTree>>

\* the input frame does not exist: the submission loop breaks
EndSubmission ==
    /\ SchedOnly
    /\ subPc = "submit"
    /\ subPc' = "allow"
    /\ UNCHANGED <<nBuilders, repeat, repeatIndex, frameIndex, threads,
                   mUseCount, mUses, mAllowRelease, mQuadtree, built,
                   destroyed, taskCount, tasksDone, cvMutex, allowIdx, taskPc,
                   taskBuilder, taskGotTree>>

\* for (auto &builder : frameBuilders) builder.AllowRelease();
AllowReleaseLoop ==
    /\ SchedOnly
    /\ subPc = "allow"
    /\ IF allowIdx < nBuilders
       THEN /\ AllowRelease(allowIdx)
            /\ allowIdx' = allowIdx + 1
            /\ UNCHANGED subPc
       ELSE /\ subPc' = "check"
            /\ UNCHANGED <<allowIdx, mUseCount, mUses, mAllowRelease,
                           mQuadtree, built, destroyed>>
    /\ UNCHANGED <<nBuilders, repeat, repeatIndex, frameIndex, threads,
                   taskCount, tasksDone, cvMutex, taskPc, taskBuilder,
                   taskGotTree>>

SubOnly ==
    /\ SchedOnly
    /\ UNCHANGED <<nBuilders, repeat, repeatIndex, frameIndex, threads,
                   mUseCount, mUses, mAllowRelease, mQuadtree, built, destroyed,
                   taskCount, tasksDone, allowIdx, taskPc, taskBuilder,
                   taskGotTree>>

\* the condition of the wait loop
WaitConditionOneShort(done, count) == done + 1 < count

WaitCondition(done, count) == done < count

\* while (tasksDone < taskCount): the test, made without holding cvMutex
WaitTest ==
    /\ subPc = "check"
    /\ subPc' = IF WaitCondition(tasksDone, taskCount) THEN "lock" ELSE "drain"
    /\ UNCHANGED cvMutex
    /\ SubOnly

\* std::unique_lock lock(cvMutex)
WaitLock ==
    /\ subPc = "lock"
    /\ cvMutex = "free"
    /\ cvMutex' = "main"
    /\ subPc' = "locked"
    /\ SubOnly

\* cv.wait(lock): release cvMutex and block
WaitBlock ==
    /\ subPc = "locked"
    /\ cvMutex' = "free"
    /\ subPc' = "waiting"
    /\ SubOnly

\* cv.wait may return without a notification
SpuriousWakeup ==
    /\ subPc = "waiting"
    /\ subPc' = "woken"
    /\ UNCHANGED cvMutex
    /\ SubOnly

\* cv.wait reacquires cvMutex and returns; the lock's scope ends
WaitReturn ==
    /\ subPc = "woken"
    /\ cvMutex = "free"
    /\ subPc' = "check"
    /\ UNCHANGED cvMutex
    /\ SubOnly

Running(t) ==
    taskPc[t] \in {"getTree", "process", "inc", "notify"}

\* pool.wait_for_tasks() and the return of createVideoFrames, which
\* destroys frameBuilders and with them every engine still held
Return ==
    /\ SchedOnly
    /\ subPc = "drain"
    /\ \A t \in Tasks : taskPc[t] # "queued" /\ ~Running(t)
    /\ subPc' = "returned"
    /\ mQuadtree' = [b \in Builders |-> FALSE]
    /\ destroyed' = [b \in Builders |->
                        IF mQuadtree[b] THEN destroyed[b] + 1 ELSE destroyed[b]]
    /\ UNCHANGED <<nBuilders, repeat, repeatIndex, frameIndex, threads,
                   mUseCount, mUses, mAllowRelease, built, taskCount,
                   tasksDone, cvMutex, allowIdx, taskPc, taskBuilder,
                   taskGotTree>>

(***************************************************************************)
(* createVideoFrames: the task submitted for one output frame              *)
(***************************************************************************)

TaskOnly ==
    /\ SchedOnly
    /\ UNCHANGED <<nBuilders, repeat, repeatIndex, frameIndex, threads,
                   taskCount, allowIdx, taskBuilder>>

BuilderSame ==
    UNCHANGED <<mUseCount, mUses, mAllowRelease, mQuadtree, built, destroyed>>

\* a pool thread is free and the task is the oldest one queued
CanStart(t) ==
    /\ taskPc[t] = "queued"
    /\ \A u \in Tasks : u < t => taskPc[u] # "queued"
    /\ Cardinality({u \in Tasks : Running(u)}) < threads

\* a pool thread takes the task; fs::create_directories(outPath.parent_path())
\* succeeds or is skipped and the try block is entered
StartTask(t) ==
    /\ CanStart(t)
    /\ taskPc' = [taskPc EXCEPT ![t] = "getTree"]
    /\ BuilderSame /\ TaskOnly
    /\ UNCHANGED <<tasksDone, cvMutex, subPc, taskGotTree>>

\* a pool thread takes the task and fs::create_directories throws: the call
\* is made before the try block, so the exception leaves the task callable
StartTaskMkDirThrows(t) ==
    /\ CanStart(t)
    /\ taskPc' = [taskPc EXCEPT ![t] = "escaped"]
    /\ BuilderSame /\ TaskOnly
    /\ UNCHANGED <<tasksDone, cvMutex, subPc, taskGotTree>>

\* auto &tree = builder->GetTree();
TaskGetTree(t) ==
    /\ taskPc[t] = "getTree"
    /\ GetTree(taskBuilder[t])
    /\ taskPc' = [taskPc EXCEPT ![t] = "process"]
    /\ taskGotTree' = [taskGotTree EXCEPT ![t] = TRUE]
    /\ TaskOnly
    /\ UNCHANGED <<tasksDone, cvMutex, subPc>>

\* the construction of the engine inside GetTree throws: mQuadtree stays
\* empty and the catch block is entered
TaskGetTreeThrows(t) ==
    /\ taskPc[t] = "getTree"
    /\ ~mQuadtree[taskBuilder[t]]
    /\ taskPc' = [taskPc EXCEPT ![t] = "inc"]
    /\ BuilderSame /\ TaskOnly
    /\ UNCHANGED <<tasksDone, cvMutex, subPc, taskGotTree>>

\* ProcessFrame (or the decoding of its argument) throws: Release is skipped
TaskProcessFrameThrows(t) ==
    /\ taskPc[t] = "process"
    /\ taskPc' = [taskPc EXCEPT ![t] = "inc"]
    /\ BuilderSame /\ TaskOnly
    /\ UNCHANGED <<tasksDone, cvMutex, subPc, taskGotTree>>

\* tree.ProcessFrame(Image(inPath...)) returns while the task holds the
\* engine; builder->Release(); the optional resize and frame.save complete
\* or throw into the catch block, and control reaches the increment either way
TaskRelease(t) ==
    /\ taskPc[t] = "process"
    /\ Release(taskBuilder[t])
    /\ taskPc' = [taskPc EXCEPT ![t] = "inc"]
    /\ TaskOnly
    /\ UNCHANGED <<tasksDone, cvMutex, subPc, taskGotTree>>

\* { std::unique_lock lock(cvMutex); ++tasksDone; }
TaskIncDone(t) ==
    /\ taskPc[t] = "inc"
    /\ cvMutex = "free"
    /\ tasksDone' = tasksDone + 1
    /\ taskPc' = [taskPc EXCEPT ![t] = "notify"]
    /\ BuilderSame /\ TaskOnly
    /\ UNCHANGED <<cvMutex, subPc, taskGotTree>>

\* cv.notify_one(): wakes the submitting thread if it is blocked in cv.wait
TaskNotify(t) ==
    /\ taskPc[t] = "notify"
    /\ subPc' = IF subPc = "waiting" THEN "woken" ELSE subPc
    /\ taskPc' = [taskPc EXCEPT ![t] = "done"]
    /\ BuilderSame /\ TaskOnly
    /\ UNCHANGED <<tasksDone, cvMutex, taskGotTree>>

SubmitterStep ==
    \/ SubmitFrame
    \/ EndSubmission
    \/ AllowReleaseLoop
    \/ WaitTest
    \/ WaitLock
    \/ WaitBlock
    \/ WaitReturn
    \/ Return

TaskStep(t) ==
    \/ StartTask(t)
    \/ StartTaskMkDirThrows(t)
    \/ TaskGetTree(t)
    \/ TaskGetTreeThrows(t)
    \/ TaskProcessFrameThrows(t)
    \/ TaskRelease(t)
    \/ TaskIncDone(t)
    \/ TaskNotify(t)

NextSched ==
    \/ SubmitterStep
    \/ SpuriousWakeup
    \/ \E t \in Tasks : TaskStep(t)

(***************************************************************************)
(* Quadtree::GetLeaf: the sprite cache                                     *)
(***************************************************************************)

NoKey == <<0, 0>>
NoReturn == [surface |-> 0, path |-> "none"]

InitCache ==
    /\ mLeafCache = [k \in LeafKeys |-> 0]
    /\ cacheReaders = {}
    /\ cacheWriter = 0
    /\ leafPc = [t \in LeafThreads |-> "idle"]
    /\ leafKey = [t \in LeafThreads |-> NoKey]
    /\ leafCalls = 0
    /\ leafLast = [t \in LeafThreads |-> NoReturn]
    /\ leafReturned = {}
    /\ resizeCount = [k \in LeafKeys |-> 0]

\* the engine's cache while no GetLeaf call is modelled
IdleCache == InitCache

\* a thread enters GetLeaf(bounds) with size = (bounds.w, bounds.h)
LeafCall(t, k) ==
    /\ CacheOnly
    /\ leafPc[t] = "idle"
    /\ leafCalls < MaxLeafCalls
    /\ leafCalls' = leafCalls + 1
    /\ leafKey' = [leafKey EXCEPT ![t] = k]
    /\ leafPc' = [leafPc EXCEPT ![t] = "lockShared"]
    /\ UNCHANGED <<mLeafCache, cacheReaders, cacheWriter, leafLast,
                   leafReturned, resizeCount>>

\* std::shared_lock lock(*mCacheMutex)
LeafLockShared(t) ==
    /\ CacheOnly
    /\ leafPc[t] = "lockShared"
    /\ cacheWriter = 0
    /\ cacheReaders' = cacheReaders \cup {t}
    /\ leafPc' = [leafPc EXCEPT ![t] = "findShared"]
    /\ UNCHANGED <<mLeafCache, cacheWriter, leafKey, leafCalls, leafLast,
                   leafReturned, resizeCount>>

\* the result of a completed call
LeafReturn(t, surface, path) ==
    /\ leafLast' = [leafLast EXCEPT ![t] =
                       [surface |-> surface, path |-> path]]
    /\ leafReturned' = leafReturned \cup {<<leafKey[t], surface>>}
    /\ leafPc' = [leafPc EXCEPT ![t] = "idle"]

\* find under the shared lock: return the entry on a hit; the lock's scope
\* ends either way
LeafFindShared(t) ==
    /\ CacheOnly
    /\ leafPc[t] = "findShared"
    /\ cacheReaders' = cacheReaders \ {t}
    /\ IF mLeafCache[leafKey[t]] # 0
       THEN LeafReturn(t, mLeafCache[leafKey[t]], "shared")
       ELSE /\ leafPc' = [leafPc EXCEPT ![t] = "lockUnique"]
            /\ UNCHANGED <<leafLast, leafReturned>>
    /\ UNCHANGED <<mLeafCache, cacheWriter, leafKey, leafCalls, resizeCount>>

\* std::unique_lock lock(*mCacheMutex)
LeafLockUnique(t) ==
    /\ CacheOnly
    /\ leafPc[t] = "lockUnique"
    /\ cacheWriter = 0
    /\ cacheReaders = {}
    /\ cacheWriter' = t
    /\ leafPc' = [leafPc EXCEPT ![t] = "findUnique"]
    /\ UNCHANGED <<mLeafCache, cacheReaders, leafKey, leafCalls, leafLast,
                   leafReturned, resizeCount>>

\* the second find, under the exclusive lock: is the entry missing?
RecheckSkipped(cache, k) == TRUE

RecheckMisses(cache, k) == cache[k] = 0

\* std::map::emplace: inserts only when the key has no entry
EmplaceOverwrites(cache, k, surface) == [cache EXCEPT ![k] = surface]

EmplaceEvicts(cache, k, surface) ==
    [j \in DOMAIN cache |-> IF j = k THEN surface ELSE 0]

Emplace(cache, k, surface) ==
    IF cache[k] = 0 THEN [cache EXCEPT ![k] = surface] ELSE cache

\* find under the exclusive lock; on a miss resizeFastNew runs and its
\* surface is emplaced; the entry is returned and the lock's scope ends
LeafFindUnique(t) ==
    /\ CacheOnly
    /\ leafPc[t] = "findUnique"
    /\ cacheWriter = t
    /\ cacheWriter' = 0
    /\ LET k == leafKey[t]
       IN  IF RecheckMisses(mLeafCache, k)
           THEN LET made  == resizeCount[k] + 1
                    cache == Emplace(mLeafCache, k, made)
                IN  /\ resizeCount' = [resizeCount EXCEPT ![k] = made]
                    /\ mLeafCache' = cache
                    /\ LeafReturn(t, cache[k], "insert")
           ELSE /\ LeafReturn(t, mLeafCache[k], "recheck")
                /\ UNCHANGED <<mLeafCache, resizeCount>>
    /\ UNCHANGED <<cacheReaders, leafKey, leafCalls>>

NextCache ==
    \E t \in LeafThreads :
        \/ \E k \in LeafKeys : LeafCall(t, k)
        \/ LeafLockShared(t)
        \/ LeafFindShared(t)
        \/ LeafLockUnique(t)
        \/ LeafFindUnique(t)

(***************************************************************************)
(* SubdivisionBW::Merge and SubdivisionColor::Merge                        *)
(***************************************************************************)

Max(a, b) == IF a >= b THEN a ELSE b

Rect(x, y, w, h) == [x |-> x, y |-> y, w |-> w, h |-> h]

Byte(n) == n % 256

RgbColor(r, g, b) == [r |-> r, g |-> g, b |-> b]

Min4(a, b, c, d) ==
    LET m1 == IF a <= b THEN a ELSE b
        m2 == IF c <= d THEN c ELSE d
    IN  IF m1 <= m2 THEN m1 ELSE m2

Max4(a, b, c, d) == Max(Max(a, b), Max(c, d))

\* the merged color: the channel sums divided by 4, cast to byte
MeanColorOfThree(tl, tr, bl, br) ==
    RgbColor(Byte((tl.r + tr.r + bl.r) \div 4),
             Byte((tl.g + tr.g + bl.g) \div 4),
             Byte((tl.b + tr.b + bl.b) \div 4))

MeanColor(tl, tr, bl, br) ==
    RgbColor(Byte((tl.r + tr.r + bl.r + br.r) \div 4),
             Byte((tl.g + tr.g + bl.g + br.g) \div 4),
             Byte((tl.b + tr.b + bl.b + br.b) \div 4))

\* n - m < mParams.similarityThreshold
SpreadWithinOrEqual(spread, threshold) == spread <= threshold

SpreadWithin(spread, threshold) == spread < threshold

\* SubdivisionBW::Merge
MergeBW(threshold, tl, tr, bl, br) ==
    LET m == Min4(tl.r, tr.r, bl.r, br.r)
        n == Max4(tl.r, tr.r, bl.r, br.r)
    IN  [merge |-> SpreadWithin(n - m, threshold),
         color |-> MeanColor(tl, tr, bl, br)]

sqr(x) == x * x

\* the lambda diff2: the squared Euclidean distance of two colors
diff2RedGreen(x, y) == sqr(x.r - y.r) + sqr(x.g - y.g)

diff2(x, y) == sqr(x.r - y.r) + sqr(x.g - y.g) + sqr(x.b - y.b)

\* SubdivisionColor::Merge
MergeColor(threshold, tl, tr, bl, br) ==
    LET thresh2 == 3 * sqr(threshold)
        maxDiff == Max(Max(Max(0, diff2(tl, tr)), Max(diff2(tl, bl), diff2(tl, br))),
                       Max(Max(diff2(tr, bl), diff2(tr, br)), diff2(bl, br)))
    IN  [merge |-> maxDiff < thresh2,
         color |-> MeanColor(tl, tr, bl, br)]

\* the virtual call mSubChecker->Merge(...)
Merge(m, threshold, tl, tr, bl, br) ==
    IF m = "bw" THEN MergeBW(threshold, tl, tr, bl, br)
                ELSE MergeColor(threshold, tl, tr, bl, br)

NoMerge == [merge |-> FALSE, color |-> RgbColor(0, 0, 0), called |-> FALSE]

\* no Merge call is modelled
IdleMerge ==
    /\ mode = "bw"
    /\ similarityThreshold = 0
    /\ quad = <<RgbColor(0, 0, 0), RgbColor(0, 0, 0), RgbColor(0, 0, 0), RgbColor(0, 0, 0)>>
    /\ merged = NoMerge

\* the channel values of one run start at the low or at the high end of the
\* byte range
ChannelBases == {0, 255 - MaxChan}

\* the colors a policy hands to Merge: the monochrome GetColor and Merge
\* return grays {val, val, val}; the color policy returns any color (red and
\* green range over the window, blue over its two ends)
ColorsOf(m, lo) ==
    IF m = "bw"
    THEN {RgbColor(v, v, v) : v \in lo .. (lo + MaxChan)}
    ELSE {RgbColor(x, y, z) : x \in lo .. (lo + MaxChan),
                              y \in lo .. (lo + MaxChan),
                              z \in {lo, lo + MaxChan}}

InitMerge ==
    /\ mode \in {"bw", "color"}
    /\ similarityThreshold \in 0 .. MaxThreshold
    /\ \E lo \in ChannelBases :
           quad \in [1 .. 4 -> ColorsOf(mode, lo)]
    /\ merged = NoMerge

\* auto [doMerge, color] = mSubChecker->Merge(tl, tr, bl, br)
CallMerge ==
    /\ ~merged.called
    /\ LET res == Merge(mode, similarityThreshold, quad[1], quad[2], quad[3], quad[4])
       IN  merged' = [merge |-> res.merge, color |-> res.color, called |-> TRUE]
    /\ UNCHANGED <<mode, similarityThreshold, quad>>
    /\ MergeOnly

NextMerge == CallMerge

(***************************************************************************)
(* SubdivisionChecker::GetColor, Quadtree::RenderLeaf and the recursive    *)
(* Quadtree::ProcessFrame(Image&, Rect)                                    *)
(***************************************************************************)

\* --min-size: default_value("8")
DefaultMinSize == 8
\* --similarity: default_value("8")
DefaultSimilarity == 8

Black == RgbColor(0, 0, 0)

White == RgbColor(255, 255, 255)

NoRect == Rect(0, 0, 0, 0)

\* Image::pixel(x, y): the pixel at mData.data() + (x + y * mWidth) *
\* mChannels.  An x past the row's end lands in the next row; an address
\* past the buffer's end is an undefined read
PixelAt(px, x, y, bey) ==
    LET i == x + y * frameW
    IN  IF i >= 0 /\ i < Len(px) THEN px[i + 1] ELSE bey

\* the sum of channel ch over the first k pixels of r, row by row
RECURSIVE SumChannel(_, _, _, _, _)
SumChannel(px, r, ch, k, bey) ==
    IF k = 0
    THEN 0
    ELSE PixelAt(px, r.x + ((k - 1) % r.w), r.y + ((k - 1) \div r.w), bey)[ch]
             + SumChannel(px, r, ch, k - 1, bey)

\* bound<byte>(sum / n): std::round of the quotient, clamped to 0..255.  For
\* n = 0 the quotient is NaN and its conversion to byte is undefined
BoundTruncated(sum, n, undefined) ==
    IF n = 0 THEN undefined
    ELSE LET q == sum \div n
         IN  IF q < 0 THEN 0 ELSE IF q > 255 THEN 255 ELSE q

Bound(sum, n, undefined) ==
    IF n = 0 THEN undefined
    ELSE LET q == (2 * sum + n) \div (2 * n)
         IN  IF q < 0 THEN 0 ELSE IF q > 255 THEN 255 ELSE q

\* SubdivisionBW::GetColor: the mean of channel 0, replicated
GetColorBW(px, r, bey) ==
    LET n == r.w * r.h
        val == Bound(SumChannel(px, r, "r", n, bey), n, bey.r)
    IN  RgbColor(val, val, val)

\* SubdivisionColor::GetColor: the mean of each channel
GetColorColorFirstChannel(px, r, bey) ==
    LET n == r.w * r.h
        val == Bound(SumChannel(px, r, "r", n, bey), n, bey.r)
    IN  RgbColor(val, val, val)

GetColorColor(px, r, bey) ==
    LET n == r.w * r.h
    IN  RgbColor(Bound(SumChannel(px, r, "r", n, bey), n, bey.r),
                 Bound(SumChannel(px, r, "g", n, bey), n, bey.g),
                 Bound(SumChannel(px, r, "b", n, bey), n, bey.b))

\* the virtual call mSubChecker->GetColor(frame, r); bey is what an
\* undefined read or conversion yields
GetColor(m, px, r, bey) ==
    IF m = "bw" THEN GetColorBW(px, r, bey) ELSE GetColorColor(px, r, bey)

\* the leaf template is a white image, and so is every resized sprite
TemplateColor == White

\* scale(val, uint8_t s): val = old * s >> 8, on each channel (colorMask)
Tint(sprite, color) ==
    RgbColor((sprite.r * color.r) \div 256,
             (sprite.g * color.g) \div 256,
             (sprite.b * color.b) \div 256)

\* pixel (x, y) of the frame lies in r
InRect(x, y, r) ==
    /\ r.x <= x /\ x < r.x + r.w
    /\ r.y <= y /\ y < r.y + r.h

\* LeafData{color, bounds} held in a ProcResult; Nullopt is std::nullopt
LeafData(color, b) == [has |-> TRUE, color |-> color, bounds |-> b]

Nullopt == [has |-> FALSE, color |-> Black, bounds |-> NoRect]

\* RenderLeaf(dst, data): rect(bounds, background), then the tinted sprite
\* is copied over it; both are clipped to the frame
RenderLeaf(px, data) ==
    [i \in 1 .. Len(px) |->
        IF InRect((i - 1) % frameW, (i - 1) \div frameW, data.bounds)
        THEN Tint(TemplateColor, data.color)
        ELSE px[i]]

\* RenderLeaf on each element of leaves, in order
RECURSIVE RenderAll(_, _)
RenderAll(px, leaves) ==
    IF leaves = <<>> THEN px
    ELSE RenderAll(RenderLeaf(px, Head(leaves)), Tail(leaves))

\* if (bounds.w <= mParams.minSize || bounds.h <= mParams.minSize)
IsLeafBothAxes(b) == b.w <= minSize /\ b.h <= minSize

IsLeaf(b) == b.w <= minSize \/ b.h <= minSize

\* std::all_of(results, has_value)
AnyOf(results) == \E i \in 1 .. 4 : results[i].has

AllOf(results) == \A i \in 1 .. 4 : results[i].has

\* the children that returned a pending leaf, in order: the loop
\* for (result : results) if (result) RenderLeaf(frame, *result)
PendingLeavesFirstOnly(results) ==
    IF results[1].has THEN <<results[1]>> ELSE <<>>

PendingLeaves(results) == SelectSeq(results, LAMBDA q : q.has)

\* the four rectangles a region is split into, in the order of the array
\* results: upper left, upper right, lower left, lower right
ChildrenLeftHeavy(b) ==
    LET ulX == b.x
        ulY == b.y
        mmX == b.x + ((b.w + 1) \div 2)
        mmY == b.y + ((b.h + 1) \div 2)
        brX == b.x + b.w
        brY == b.y + b.h
    IN  <<Rect(ulX, ulY, mmX - ulX, mmY - ulY),
          Rect(mmX, ulY, brX - mmX, mmY - ulY),
          Rect(ulX, mmY, mmX - ulX, brY - mmY),
          Rect(mmX, mmY, brX - mmX, brY - mmY)>>

Children(b) ==
    LET ulX == b.x
        ulY == b.y
        mmX == b.x + (b.w \div 2)
        mmY == b.y + (b.h \div 2)
        brX == b.x + b.w
        brY == b.y + b.h
    IN  <<Rect(ulX, ulY, mmX - ulX, mmY - ulY),
          Rect(mmX, ulY, brX - mmX, mmY - ulY),
          Rect(ulX, mmY, mmX - ulX, brY - mmY),
          Rect(mmX, mmY, brX - mmX, brY - mmY)>>

\* what the call does to the frame's pixels, in order: GetColor reads the
\* pixels of a rectangle, RenderLeaf writes them
ReadOf(b) == [write |-> FALSE, bounds |-> b]

WritesOf(leaves) == [i \in 1 .. Len(leaves) |->
                        [write |-> TRUE, bounds |-> leaves[i].bounds]]

\* a recursion that is deeper than the stack: the call never returns
Overflow(px) ==
    [overflow |-> TRUE, px |-> px, result |-> Nullopt, own |-> <<>>,
     rendered |-> <<>>, depth |-> 0, positive |-> TRUE, nodes |-> <<>>,
     log |-> <<>>]

\* ProcessFrame(frame, bounds).  The outcome holds the frame after the call
\* (px), the returned ProcResult (result), the leaves this level rendered
\* (own), every leaf rendered by the call in order (rendered), the depth of
\* the recursion below this level (depth), whether every region visited has
\* w >= 1 and h >= 1 (positive), one record per subdivided region
\* (nodes): its bounds, its children's rectangles (quads) and results
\* (kids), its result and its own; and the reads and writes of the call in
\* order (log)

\* the rest of a subdivided region's call, after its four recursive calls:
\* all_of, Merge, the render loop and the return
Subdivided(b, q, acc) ==
    IF acc.overflow
    THEN Overflow(acc.px)
    ELSE
      LET c == acc.outs
          results == <<c[1].result, c[2].result, c[3].result, c[4].result>>
          m == Merge(mode, similarityThreshold, c[1].result.color, c[2].result.color,
                     c[3].result.color, c[4].result.color)
          approved == AllOf(results) /\ m.merge
          result == IF approved THEN LeafData(m.color, b) ELSE Nullopt
          own == IF approved THEN <<>> ELSE PendingLeaves(results)
          node == [bounds |-> b, quads |-> q, kids |-> results,
                   result |-> result, own |-> own]
      IN  [overflow |-> FALSE,
           px |-> RenderAll(acc.px, own),
           result |-> result,
           own |-> own,
           rendered |-> c[1].rendered \o c[2].rendered \o c[3].rendered
                            \o c[4].rendered \o own,
           depth |-> 1 + Max(Max(c[1].depth, c[2].depth), Max(c[3].depth, c[4].depth)),
           positive |-> /\ b.w >= 1 /\ b.h >= 1
                        /\ c[1].positive /\ c[2].positive
                        /\ c[3].positive /\ c[4].positive,
           nodes |-> c[1].nodes \o c[2].nodes \o c[3].nodes \o c[4].nodes \o <<node>>,
           log |-> c[1].log \o c[2].log \o c[3].log \o c[4].log \o WritesOf(own)]

RECURSIVE ProcessFrameRec(_, _, _, _)
RECURSIVE ThenChild(_, _, _, _)

\* the next recursive call ProcessFrame(frame, r), unless the stack has
\* overflowed: the initializers of the array results are evaluated in order,
\* each on the frame the one before it left (acc holds the frame so far and
\* the outcomes so far)
ThenChild(acc, r, fuel, bey) ==
    IF acc.overflow THEN acc
    ELSE LET c == ProcessFrameRec(acc.px, r, fuel, bey)
         IN  [overflow |-> c.overflow, px |-> c.px, outs |-> Append(acc.outs, c)]

ProcessFrameRec(px, b, fuel, bey) ==
    IF IsLeaf(b)
    THEN [overflow |-> FALSE, px |-> px,
          result |-> LeafData(GetColor(mode, px, b, bey), b),
          own |-> <<>>, rendered |-> <<>>, depth |-> 0,
          positive |-> (b.w >= 1 /\ b.h >= 1), nodes |-> <<>>,
          log |-> <<ReadOf(b)>>]
    ELSE IF fuel = 0
    THEN Overflow(px)
    ELSE Subdivided(b, Children(b),
             ThenChild(ThenChild(ThenChild(ThenChild(
                 [overflow |-> FALSE, px |-> px, outs |-> <<>>],
                 Children(b)[1], fuel - 1, bey),
                 Children(b)[2], fuel - 1, bey),
                 Children(b)[3], fuel - 1, bey),
                 Children(b)[4], fuel - 1, bey))

NoCall ==
    [called |-> FALSE, bounds |-> NoRect, overflow |-> FALSE, result |-> Nullopt,
     leaves |-> <<>>, depth |-> 0, positive |-> TRUE, nodes |-> <<>>,
     log |-> <<>>]

\* a frame of W x H pixels of one color
UniformFrame(W, H, color) == [i \in 1 .. W * H |-> color]

\* the frame of a call whose pixels are not looked at: black, with the
\* default --min-size
BlankFrame ==
    /\ pixels = UniformFrame(frameW, frameH, Black)
    /\ original = pixels
    /\ beyond = Black
    /\ minSize = DefaultMinSize
    /\ rendered = <<>>
    /\ lastCall = NoCall

\* no ProcessFrame call is modelled
IdleRender ==
    /\ pixels = <<Black>>
    /\ original = <<Black>>
    /\ beyond = Black
    /\ minSize = DefaultMinSize
    /\ rendered = <<>>
    /\ lastCall = NoCall

(***************************************************************************)
(* Quadtree::ProcessFrame(Image): the tiles of a frame                     *)
(***************************************************************************)

\* GetBestSplitCount(leafImage, bounds).  The code computes in double:
\* leafAR = lw / lh, w = W, h = H * leafAR, bestAR = the larger of w, h over
\* the smaller.  With w : h = W * lh : H * lw the same comparisons are made
\* here on integers (the doubles agree on every size up to 12).
GetBestSplitCountNoRound(lw, lh, W, H) ==
    LET a == W * lh
        b == H * lw
        num == IF a > b THEN a ELSE b
        den == IF a > b THEN b ELSE a
    IN  [count |-> num \div den, horizontal |-> a > b]

GetBestSplitCount(lw, lh, W, H) ==
    LET a == W * lh
        b == H * lw
        num == IF a > b THEN a ELSE b
        den == IF a > b THEN b ELSE a
        bestCount == num \div den
    IN  [count |-> IF num * num > bestCount * (bestCount + 1) * den * den
                   THEN bestCount + 1 ELSE bestCount,
         horizontal |-> a > b]

\* the first value of err
FirstErrZero(es) == 0

FirstErr(es) == es

\* no ProcessFrame(Image) call is modelled
IdleTiles ==
    /\ frameW = 1 /\ frameH = 1 /\ leafW = 1 /\ leafH = 1
    /\ bounds = NoRect
    /\ horizontal = FALSE
    /\ splitCount = 0 /\ step = 0 /\ errStep = 0 /\ err = 0 /\ tileI = 0
    /\ tiles = <<>>
    /\ tilePc = "idle"

\* the locals of a call ProcessFrame(frame) on an engine with leaf lw x lh:
\* Rect bounds{0, 0, frame.width(), frame.height()}
EnterProcessFrame(W, H, lw, lh) ==
    /\ frameW = W /\ frameH = H /\ leafW = lw /\ leafH = lh
    /\ bounds = Rect(0, 0, W, H)
    /\ horizontal = FALSE
    /\ splitCount = 0 /\ step = 0 /\ errStep = 0 /\ err = 0 /\ tileI = 0
    /\ tiles = <<>>
    /\ tilePc = "start"

\* every frame size against every leaf size
InitTiles ==
    /\ \E W, H \in 1 .. MaxDim : \E lw, lh \in 1 .. MaxLeafSide :
           EnterProcessFrame(W, H, lw, lh)
    /\ BlankFrame

\* every frame size against the leaves that make bestAR a whole number S
\* between 1 and the longer side of the frame
InitSplit ==
    /\ \E W, H \in 1 .. MaxDim : \E S \in 1 .. Max(W, H) :
           EnterProcessFrame(W, H, W, H * S)
    /\ BlankFrame

\* bounds with its size field (w if horizontal, h otherwise) set
SetSize(r, horiz, v) == IF horiz THEN [r EXCEPT !.w = v] ELSE [r EXCEPT !.h = v]

\* bounds with its pos field (x if horizontal, y otherwise) set
SetPos(r, horiz, v) == IF horiz THEN [r EXCEPT !.x = v] ELSE [r EXCEPT !.y = v]

Size(r, horiz) == IF horiz THEN r.w ELSE r.h

Pos(r, horiz) == IF horiz THEN r.x ELSE r.y

\* lines 192-198: splitCount, horizontal, step, errStep, err, size = step
TileSetup ==
    /\ tilePc = "start"
    /\ LET g  == GetBestSplitCount(leafW, leafH, bounds.w, bounds.h)
           st == Max(bounds.w, bounds.h) \div g.count
           es == Max(bounds.w, bounds.h) - st * g.count
       IN  /\ splitCount' = g.count
           /\ horizontal' = g.horizontal
           /\ step' = st
           /\ errStep' = es
           /\ err' = FirstErr(es)
           /\ bounds' = SetSize(bounds, g.horizontal, st)
    /\ tileI' = 0
    /\ tilePc' = "loop"
    /\ UNCHANGED <<frameW, frameH, leafW, leafH, tiles>>
    /\ UNCHANGED renderVars
    /\ TilesOnly

\* auto result = ProcessFrame(frame, bounds); if (result) RenderLeaf(frame,
\* *result): c is the outcome of the recursive call
TileCall(c) ==
    LET top == IF c.result.has THEN <<c.result>> ELSE <<>>
    IN  /\ lastCall' = [called |-> TRUE, bounds |-> bounds,
                        overflow |-> c.overflow, result |-> c.result,
                        leaves |-> c.rendered \o top,
                        depth |-> c.depth, positive |-> c.positive,
                        nodes |-> c.nodes,
                        log |-> WritesOf(rendered) \o c.log \o WritesOf(top)]
        /\ IF c.overflow
           THEN /\ tilePc' = "crashed"
                /\ UNCHANGED <<pixels, rendered>>
           ELSE /\ tilePc' = tilePc
                /\ pixels' = RenderAll(c.px, top)
                /\ rendered' = rendered \o c.rendered \o top

\* one iteration of the loop: ProcessFrame(frame, bounds), RenderLeaf on a
\* returned pending leaf, then pos += size, err += errStep and the next
\* size.  A recursion that overflows the stack ends the program
TileLoop ==
    /\ tilePc = "loop"
    /\ tileI < splitCount
    /\ tiles' = Append(tiles, bounds)
    /\ TileCall(ProcessFrameRec(pixels, bounds, MaxStack, beyond))
    /\ UNCHANGED <<original, beyond, minSize>>
    /\ LET pos == Pos(bounds, horizontal) + Size(bounds, horizontal)
           e   == err + errStep
       IN  IF e >= splitCount
           THEN /\ bounds' = SetSize(SetPos(bounds, horizontal, pos), horizontal, step + 1)
                /\ err' = e - splitCount
           ELSE /\ bounds' = SetSize(SetPos(bounds, horizontal, pos), horizontal, step)
                /\ err' = e
    /\ tileI' = tileI + 1
    /\ UNCHANGED <<frameW, frameH, leafW, leafH, horizontal, splitCount, step,
                   errStep>>
    /\ TilesOnly

\* i == splitCount: return frame
TileReturn ==
    /\ tilePc = "loop"
    /\ tileI >= splitCount
    /\ tilePc' = "done"
    /\ UNCHANGED <<frameW, frameH, leafW, leafH, bounds, horizontal, splitCount,
                   step, errStep, err, tileI, tiles>>
    /\ UNCHANGED renderVars
    /\ TilesOnly

NextTiles ==
    \/ TileSetup
    \/ TileLoop
    \/ TileReturn

\* the gray of value v
Gray(v) == RgbColor(v, v, v)

\* every frame against every leaf template, both policies, --similarity 0 or
\* its default, every --min-size; the frame is black with a gray block
InitRender ==
    /\ \E W, H \in 1 .. MaxFrameSide : \E lw, lh \in 1 .. MaxLeafSide :
           EnterProcessFrame(W, H, lw, lh)
    /\ mode \in {"bw", "color"}
    /\ similarityThreshold \in {0, DefaultSimilarity}
    /\ quad = <<Black, Black, Black, Black>>
    /\ merged = NoMerge
    /\ \E x0 \in 0 .. (frameW - 1) : \E y0 \in 0 .. (frameH - 1) :
           pixels = [i \in 1 .. frameW * frameH |->
                        IF ((i - 1) % frameW) >= x0 /\ ((i - 1) \div frameW) >= y0
                        THEN Gray(MaxPixel) ELSE Black]
    /\ original = pixels
    /\ beyond \in {Black, White}
    /\ minSize \in 0 .. MaxMinSize
    /\ rendered = <<>>
    /\ lastCall = NoCall

(***************************************************************************)
(* One call of SubdivisionChecker::GetColor                                *)
(***************************************************************************)

NoColor == [called |-> FALSE, color |-> Black]

\* no GetColor call is modelled
IdleColor ==
    /\ colorRect = NoRect
    /\ colorOut = NoColor

\* a frame of W x H pixels: color hi at x >= x0 and y >= y0, lo elsewhere
BlockFrame(W, H, lo, hi, x0, y0) ==
    [i \in 1 .. W * H |->
        IF (i - 1) % W >= x0 /\ (i - 1) \div W >= y0 THEN hi ELSE lo]

\* the colors of the frames handed to GetColor
FrameColors ==
    {RgbColor(x, y, z) : x \in {0, MaxPixel}, y \in {0, MaxPixel}, z \in {0, MaxPixel}}

\* a frame of W x H pixels on which no ProcessFrame(Image) call runs
FrameOnly(W, H) ==
    /\ frameW = W /\ frameH = H /\ leafW = 1 /\ leafH = 1
    /\ bounds = NoRect
    /\ horizontal = FALSE
    /\ splitCount = 0 /\ step = 0 /\ errStep = 0 /\ err = 0 /\ tileI = 0
    /\ tiles = <<>>
    /\ tilePc = "idle"

\* every non-empty rect inside every frame, of either policy
InitColor ==
    /\ \E W, H \in 1 .. MaxFrameSide : FrameOnly(W, H)
    /\ mode \in {"bw", "color"}
    /\ similarityThreshold = 0
    /\ quad = <<Black, Black, Black, Black>>
    /\ merged = NoMerge
    /\ \E lo \in {Black, White} : \E hi \in FrameColors : \E x0 \in 0 .. (frameW - 1) :
           pixels = BlockFrame(frameW, frameH, lo, hi, x0, 0)
    /\ original = pixels
    /\ beyond = Black
    /\ minSize = DefaultMinSize
    /\ rendered = <<>>
    /\ lastCall = NoCall
    /\ \E x \in 0 .. (frameW - 1) : \E y \in 0 .. (frameH - 1) :
           \E w \in 1 .. (frameW - x) : \E h \in 1 .. (frameH - y) :
               colorRect = Rect(x, y, w, h)
    /\ colorOut = NoColor

\* mSubChecker->GetColor(frame, r)
CallGetColor ==
    /\ ~colorOut.called
    /\ colorOut' = [called |-> TRUE, color |-> GetColor(mode, pixels, colorRect, beyond)]
    /\ UNCHANGED colorRect
    /\ ColorOnly

NextColor == CallGetColor

(***************************************************************************)
(* Image::overlay                                                          *)
(***************************************************************************)

\* an image of w x h pixels with ch channels whose pixels all have the
\* color bytes c and, with 4 channels, the alpha byte a
ImageOf(w, h, ch, c, a) ==
    [w |-> w, h |-> h, ch |-> ch,
     data |-> [i \in 1 .. w * h * ch |-> IF ch = 4 /\ i % 4 = 0 THEN a ELSE c]]

NoImage == [called |-> FALSE, data |-> <<>>]

\* no overlay call is modelled
IdleOverlay ==
    /\ ovDst = ImageOf(1, 1, 3, 0, 255)
    /\ ovSrc = ImageOf(1, 1, 3, 0, 255)
    /\ ovX = 0
    /\ ovY = 0
    /\ ovOut = NoImage

\* byte fixedMult(byte a, byte b) { return (a * b) / 255; }
fixedMult(a, b) == Byte((a * b) \div 255)

\* blend(dst, src, srcAlpha) on one channel
blend(d, c, srcAlpha) ==
    LET alpha == srcAlpha + 1
        invAlpha == 256 - srcAlpha
    IN  Byte((alpha * c + invAlpha * d) \div 256)

\* the byte at offset off of the source's buffer; past its end the read is
\* undefined
SrcByte(src, off) ==
    IF off < Len(src.data) THEN src.data[off + 1] ELSE beyond.r

\* std::copy_n(srcPixel, mChannels, dstPixel): the number of bytes read from
\* srcPixel is the destination's channel count
BytesCopied(dst) == dst.ch

\* the body of the loops: the bytes of destination pixel dp after source
\* pixel sp was laid over it
OverlayPixel(dst, src, dp, sp) ==
    LET so == sp * src.ch
        do == dp * dst.ch
        srcAlpha == IF src.ch < 4 THEN 255 ELSE src.data[so + 4]
        dstAlpha == IF dst.ch < 4 THEN 255 ELSE dst.data[do + 4]
        outAlpha == Byte(srcAlpha + fixedMult(dstAlpha, 255 - srcAlpha))
    IN  IF srcAlpha = 255
        THEN [k \in 1 .. dst.ch |->
                 IF k <= BytesCopied(dst) THEN SrcByte(src, so + k - 1)
                 ELSE dst.data[do + k]]
        ELSE IF outAlpha < 1
        THEN [k \in 1 .. dst.ch |-> 0]
        ELSE [k \in 1 .. dst.ch |->
                 IF k <= 3
                 THEN blend(dst.data[do + k], src.data[so + k], srcAlpha)
                 ELSE outAlpha]

\* Image::overlay(source, x, y): the destination's bytes after the call.
\* The loops visit the source pixels (sx, sy) with 0 <= sx + x < mWidth and
\* 0 <= sy + y < mHeight, each destination pixel at most once
overlay(dst, src, x, y) ==
    [i \in 1 .. Len(dst.data) |->
        LET dp == (i - 1) \div dst.ch
            k  == (i - 1) % dst.ch
            sx == (dp % dst.w) - x
            sy == (dp \div dst.w) - y
        IN  IF sx >= 0 /\ sx < src.w /\ sy >= 0 /\ sy < src.h
            THEN OverlayPixel(dst, src, dp, sx + sy * src.w)[k + 1]
            ELSE dst.data[i]]

\* the byte values of the images' pixels
DstBytes == {0, 255}

SrcAlphas == {0, 128, 200, 255}

\* the color bytes of the source's pixels
SrcBytes == {0, 1, 255}

InitOverlay ==
    /\ \E w, h \in 1 .. MaxImageSide : \E c \in DstBytes :
           \/ ovDst = ImageOf(w, h, 3, c, 255)
           \/ \E a \in {0, 1, 255} : ovDst = ImageOf(w, h, 4, c, a)
    /\ \E w, h \in 1 .. MaxImageSide : \E c \in SrcBytes :
           \/ ovSrc = ImageOf(w, h, 3, c, 255)
           \/ \E a \in SrcAlphas : ovSrc = ImageOf(w, h, 4, c, a)
    /\ ovX \in (0 - MaxImageSide) .. MaxImageSide
    /\ ovY \in (0 - MaxImageSide) .. MaxImageSide
    /\ ovOut = NoImage
    /\ pixels = <<Black>>
    /\ original = <<Black>>
    /\ beyond \in {Black, White}
    /\ minSize = DefaultMinSize
    /\ rendered = <<>>
    /\ lastCall = NoCall

\* dst.overlay(source, x, y)
CallOverlay ==
    /\ ~ovOut.called
    /\ ovOut' = [called |-> TRUE, data |-> overlay(ovDst, ovSrc, ovX, ovY)]
    /\ UNCHANGED <<ovDst, ovSrc, ovX, ovY>>
    /\ OverlayOnly

NextOverlay == CallOverlay

(***************************************************************************)
(* Specifications                                                          *)
(***************************************************************************)

Init ==
    /\ InitSched /\ IdleCache /\ IdleTiles /\ IdleMerge
    /\ IdleRender /\ IdleColor /\ IdleOverlay

Next == NextSched

\* the builder pool and the frame tasks of createVideoFrames
Spec == Init /\ [][Next]_vars

IdleSched ==
    /\ nBuilders = 1
    /\ repeat = 1
    /\ threads = 1
    /\ repeatIndex = 0
    /\ frameIndex = 0
    /\ mUseCount = [b \in Builders |-> 0]
    /\ mUses = [b \in Builders |-> 0]
    /\ mAllowRelease = [b \in Builders |-> FALSE]
    /\ mQuadtree = [b \in Builders |-> FALSE]
    /\ built = [b \in Builders |-> 0]
    /\ destroyed = [b \in Builders |-> 0]
    /\ taskCount = 0
    /\ tasksDone = 0
    /\ cvMutex = "free"
    /\ subPc = "submit"
    /\ allowIdx = 0
    /\ taskPc = [t \in Tasks |-> "unsubmitted"]
    /\ taskBuilder = [t \in Tasks |-> -1]
    /\ taskGotTree = [t \in Tasks |-> FALSE]

InitLeaf ==
    /\ IdleSched /\ InitCache /\ IdleTiles /\ IdleMerge
    /\ IdleRender /\ IdleColor /\ IdleOverlay

NextLeaf == NextCache

\* concurrent GetLeaf calls on one engine
SpecCache == InitLeaf /\ [][NextLeaf]_vars

InitFrame ==
    /\ IdleSched /\ IdleCache /\ InitTiles /\ IdleMerge
    /\ IdleColor /\ IdleOverlay

\* ProcessFrame(Image) over frames and leaf templates
SpecTiles == InitFrame /\ [][NextTiles]_vars

InitFrameSplit ==
    /\ IdleSched /\ IdleCache /\ InitSplit /\ IdleMerge
    /\ IdleColor /\ IdleOverlay

\* ProcessFrame(Image) over frames and split counts
SpecSplit == InitFrameSplit /\ [][NextTiles]_vars

InitPolicy ==
    /\ IdleSched /\ IdleCache /\ IdleTiles /\ InitMerge
    /\ IdleRender /\ IdleColor /\ IdleOverlay

\* one Merge call of either policy
SpecMerge == InitPolicy /\ [][NextMerge]_vars

InitGetColor == IdleSched /\ IdleCache /\ InitColor /\ IdleOverlay

\* one GetColor call of either policy
SpecColor == InitGetColor /\ [][NextColor]_vars

InitImages ==
    /\ IdleSched /\ IdleCache /\ IdleTiles /\ IdleMerge /\ IdleColor
    /\ InitOverlay

\* one Image::overlay call
SpecOverlay == InitImages /\ [][NextOverlay]_vars

InitDecompose == IdleSched /\ IdleCache /\ InitRender /\ IdleColor /\ IdleOverlay

\* ProcessFrame(Image) with its recursive decomposition and rendering
SpecRender == InitDecompose /\ [][NextTiles]_vars

\* the submitting thread and every running task keep taking steps; a
\* spurious return of cv.wait is allowed but never promised
FairSpec ==
    /\ Init
    /\ [][Next]_vars
    /\ WF_vars(SubmitterStep)
    /\ \A t \in Tasks : WF_vars(TaskStep(t))

(***************************************************************************)
(* Properties of the builder pool and the frame tasks                      *)
(***************************************************************************)

\* the task's GetTree call has returned the engine
GotTree(t) == taskGotTree[t]

\* the task holds the reference: between GetTree and Release
HoldsTree(t) == taskPc[t] = "process"

TasksOf(b) == {t \in Tasks : taskBuilder[t] = b}

\* C1 (as stated): every builder constructs its engine at most once and
\* destroys it at most once, an engine that was reset is never constructed
\* again, and a builder with at least one scheduled task has constructed it
\* exactly once when its tasks have all ended.
C1_BuiltExactlyOnceIfScheduled ==
    \A b \in Builders :
        /\ built[b] <= 1
        /\ destroyed[b] <= 1
        /\ (destroyed[b] = 1 => ~mQuadtree[b])
        /\ (/\ mUseCount[b] >= 1
            /\ \A t \in TasksOf(b) : taskPc[t] \in {"done", "escaped"})
           => built[b] = 1

\* C1 (amended): every builder constructs its engine at most once and
\* destroys it at most once, an engine that was reset is never constructed
\* again, and the engine has been constructed exactly once as soon as the
\* GetTree call of one of the builder's tasks has returned; a builder none of
\* whose tasks got through GetTree has constructed nothing.
C1_BuiltOnceDestroyedOnce ==
    \A b \in Builders :
        /\ built[b] <= 1
        /\ destroyed[b] <= 1
        /\ (destroyed[b] = 1 => ~mQuadtree[b])
        /\ built[b] = (IF \E t \in TasksOf(b) : GotTree(t) THEN 1 ELSE 0)

\* two tasks used the one engine of a builder, ReleaseImpl has reset it and
\* the function has not returned yet
C1_Witness ==
    \E b \in Builders :
        /\ subPc # "returned"
        /\ built[b] = 1 /\ destroyed[b] = 1 /\ ~mQuadtree[b]
        /\ Cardinality({t \in TasksOf(b) : GotTree(t)}) >= 2

\* C2: while a task holds the engine reference (after GetTree, before its
\* Release has run), the builder's mQuadtree is engaged.
C2_HeldEngineAlive ==
    \A t \in Tasks : HoldsTree(t) => mQuadtree[taskBuilder[t]]

\* a task holds the engine although release is allowed and another task of
\* the same builder has already released
C2_Witness ==
    \E t \in Tasks :
        /\ HoldsTree(t)
        /\ mAllowRelease[taskBuilder[t]]
        /\ mUses[taskBuilder[t]] >= 1

InWaitLoop == subPc \in {"check", "lock", "locked", "waiting", "woken"}

\* C3: once every task has incremented tasksDone, the submitting thread
\* leaves the wait loop and createVideoFrames returns.
C3_WaitLoopExits ==
    (InWaitLoop /\ tasksDone = taskCount) ~> (subPc = "returned")

\* C4: once AllowRelease was called on a builder and all its tasks have
\* finished (normally or through the catch block), its engine is gone.
C4_TornDownAfterLastTask ==
    \A b \in Builders :
        (mAllowRelease[b] /\ \A t \in TasksOf(b) : taskPc[t] = "done")
            => ~mQuadtree[b]

\* C5: no failure leaves the task callable: no task ends without having
\* gone through the increment of tasksDone.
C5_NoFailureEscapes ==
    \A t \in Tasks : taskPc[t] # "escaped"

\* C7: with repeat >= 1, the k-th submitted frame (k = 0, 1, ...) holds the
\* builder floor(k / repeat) mod N, whatever the tasks have done since.
C7_RoundRobin ==
    repeat >= 1 =>
        \A t \in Tasks :
            taskPc[t] # "unsubmitted" =>
                taskBuilder[t] = ((t - 1) \div repeat) % nBuilders

\* three frames over two builders with repeat 2, the third frame finished
\* while the first is still running
C7_Witness ==
    /\ repeat = 2 /\ nBuilders = 2 /\ taskCount = 3
    /\ taskPc[3] = "done" /\ Running(1)
    /\ taskBuilder[1] = 0 /\ taskBuilder[2] = 0 /\ taskBuilder[3] = 1

\* the counters of every builder are in range, and mUseCount is the number
\* of tasks submitted with the builder
UseCountersInRange ==
    \A b \in Builders :
        /\ 0 <= mUses[b] /\ mUses[b] <= mUseCount[b]
        /\ mUseCount[b] = Cardinality(TasksOf(b))

\* a step that changes mUseCount[b] adds one and is the submission of one
\* task with builder b, which is queued and has not started
UseCountStep(b) ==
    mUseCount'[b] # mUseCount[b] =>
        /\ mUseCount'[b] = mUseCount[b] + 1
        /\ \E t \in Tasks :
               /\ taskPc[t] = "unsubmitted" /\ taskPc'[t] = "queued"
               /\ taskBuilder'[t] = b
               /\ \A u \in Tasks \ {t} : taskPc'[u] = taskPc[u]

\* a step that changes mUses[b] adds one and is the step of one task of
\* builder b that leaves ProcessFrame by its return
UsesStep(b) ==
    mUses'[b] # mUses[b] =>
        /\ mUses'[b] = mUses[b] + 1
        /\ \E t \in TasksOf(b) :
               /\ HoldsTree(t) /\ taskPc'[t] = "inc"
               /\ \A u \in Tasks \ {t} : taskPc'[u] = taskPc[u]

C22_NoTeardownWhileOpen ==
    \A b \in Builders :
        ~mAllowRelease[b] =>
            /\ destroyed[b] = 0
            /\ (built[b] = 1 => mQuadtree[b])

\* submission is still open, the two tasks scheduled on a builder so far
\* have released its engine, and the engine is there
C22_Witness ==
    \E b \in Builders :
        /\ subPc = "submit" /\ ~mAllowRelease[b]
        /\ mUseCount[b] = 2 /\ mUses[b] = 2
        /\ built[b] = 1 /\ mQuadtree[b]

\* C23: when the wait loop exits tasksDone = taskCount, and
\* createVideoFrames has not returned (destroying the builders with their
\* engines and caches) before every submitted task has finished.
C23_ReturnAfterAllTasks ==
    /\ subPc \in {"drain", "returned"} => tasksDone = taskCount
    /\ subPc = "returned" =>
           \A t \in Tasks : taskPc[t] \in {"unsubmitted", "done"}

\* the wait loop has exited while the task that made the last increment of
\* tasksDone has not sent its notification yet
C23_Witness ==
    /\ subPc = "drain" /\ taskCount >= 2 /\ tasksDone = taskCount
    /\ \E t \in Tasks : taskPc[t] = "notify"

(***************************************************************************)
(* Properties of the sprite cache                                          *)
(***************************************************************************)

\* C6: all GetLeaf calls with the same (w,h) return the same cache entry,
\* and resizeFastNew runs at most once for that key.
C6_OneSurfacePerKey ==
    /\ \A p, q \in leafReturned : p[1] = q[1] => p[2] = q[2]
    /\ \A k \in LeafKeys : resizeCount[k] <= 1

\* two threads missed the same key under the shared lock; one inserted the
\* entry and the other found it on the re-check, and both hold that entry
C6_Witness ==
    \E t, u \in LeafThreads :
        /\ t # u
        /\ leafLast[t].path = "insert"
        /\ leafLast[u].path = "recheck"
        /\ leafPc[t] = "idle" /\ leafPc[u] = "idle"
        /\ leafKey[t] = leafKey[u]
        /\ leafLast[t].surface = leafLast[u].surface

\* the keys that have an entry in the cache
CacheKeys == {k \in LeafKeys : mLeafCache[k] # 0}

\* the sizes of the GetLeaf calls that have returned
ReturnedKeys == {p[1] : p \in leafReturned}

\* the sizes GetLeaf was called with so far
RequestedKeys ==
    ReturnedKeys \cup {leafKey[t] : t \in {u \in LeafThreads : leafPc[u] # "idle"}}

\* an entry of the cache stays what it is
EntriesKept ==
    \A k \in LeafKeys : mLeafCache[k] # 0 => mLeafCache'[k] = mLeafCache[k]

TileInside(r) ==
    /\ r.x >= 0 /\ r.y >= 0
    /\ r.x + r.w <= frameW
    /\ r.y + r.h <= frameH

\* C8: the tiles handed to the recursive decomposition lie inside the frame
\* and, when the loop has ended, every pixel of the frame lies in exactly
\* one of them.
C8_TilesPartitionFrame ==
    /\ \A i \in 1 .. Len(tiles) : TileInside(tiles[i])
    /\ tilePc = "done" =>
           \A px \in 0 .. (frameW - 1) : \A py \in 0 .. (frameH - 1) :
               Cardinality({i \in 1 .. Len(tiles) : InRect(px, py, tiles[i])}) = 1

RECURSIVE SumSizes(_, _)
\* the extents of the first n tiles along the split axis, added up
SumSizes(n, horiz) ==
    IF n = 0 THEN 0 ELSE Size(tiles[n], horiz) + SumSizes(n - 1, horiz)

\* C9: for a split count S between 1 and D = max(W, H), the loop hands out
\* S tiles whose sizes add up to D and differ by at most 1.
C9_TileSizesSumToD ==
    (tilePc = "done" /\ splitCount <= Max(frameW, frameH)) =>
        /\ Len(tiles) = splitCount
        /\ SumSizes(Len(tiles), horizontal) = Max(frameW, frameH)
        /\ \A i, j \in 1 .. Len(tiles) :
               Size(tiles[i], horizontal) - Size(tiles[j], horizontal) <= 1

\* a dimension that S does not divide: tiles of both sizes were handed out
C9_Witness ==
    /\ tilePc = "done"
    /\ splitCount >= 2 /\ splitCount <= Max(frameW, frameH)
    /\ errStep > 0
    /\ \E i, j \in 1 .. Len(tiles) :
           Size(tiles[i], horizontal) = Size(tiles[j], horizontal) + 1

(***************************************************************************)
(* Properties of the merge policies                                        *)
(***************************************************************************)

FourIdentical == quad[1] = quad[2] /\ quad[2] = quad[3] /\ quad[3] = quad[4]

\* C10 (as stated): in both policies and for every threshold >= 0,
\* Merge(c, c, c, c) returns merge = true and the color c.
C10_IdenticalColorsMerge ==
    (merged.called /\ FourIdentical) =>
        (merged.merge /\ merged.color = quad[1])

\* C10 (amended): in both policies Merge(c, c, c, c) returns the color c for
\* every threshold >= 0; it returns merge = true for every threshold >= 1
\* and merge = false for threshold 0, the comparison being strict.
C10_IdenticalColorsMergeAboveZero ==
    (merged.called /\ FourIdentical) =>
        /\ merged.color = quad[1]
        /\ merged.merge = (similarityThreshold >= 1)

\* the color policy has merged four identical bright colors
C10_Witness ==
    /\ merged.called /\ FourIdentical
    /\ mode = "color" /\ similarityThreshold >= 1
    /\ quad[1].r >= 255 - MaxChan
    /\ merged.merge /\ merged.color = quad[1]

\* the sum of channel ch of the four colors, divided by 4
MeanOfFour(ch) == (quad[1][ch] + quad[2][ch] + quad[3][ch] + quad[4][ch]) \div 4

\* C26: the monochrome Merge returns merge = true exactly when max - min of
\* the four gray values is strictly less than similarityThreshold, and its
\* color is the integer mean of the four values on all three channels.
C26_MonochromeMerge ==
    (merged.called /\ mode = "bw") =>
        /\ merged.merge =
               (\A i, j \in 1 .. 4 : quad[i].r - quad[j].r < similarityThreshold)
        /\ merged.color = RgbColor(MeanOfFour("r"), MeanOfFour("r"), MeanOfFour("r"))

\* four grays that are not all equal, whose spread is one less than the
\* threshold, were merged
C26_Witness ==
    /\ merged.called /\ mode = "bw" /\ merged.merge
    /\ \E i, j \in 1 .. 4 :
           /\ quad[i].r - quad[j].r = similarityThreshold - 1
           /\ quad[i].r > quad[j].r
    /\ (quad[1].r + quad[2].r + quad[3].r + quad[4].r) % 4 # 0

\* C27: the color Merge returns merge = true exactly when the largest of the
\* six pairwise squared RGB distances is strictly less than
\* 3 * similarityThreshold^2, and its color is the per-channel integer mean.
C27_ColorMerge ==
    (merged.called /\ mode = "color") =>
        /\ merged.merge =
               (\A i, j \in 1 .. 4 :
                    (quad[i].r - quad[j].r) * (quad[i].r - quad[j].r)
                      + (quad[i].g - quad[j].g) * (quad[i].g - quad[j].g)
                      + (quad[i].b - quad[j].b) * (quad[i].b - quad[j].b)
                        < 3 * similarityThreshold * similarityThreshold)
        /\ merged.color = RgbColor(MeanOfFour("r"), MeanOfFour("g"), MeanOfFour("b"))

\* four colors that differ in blue and in red were merged under threshold 1
C27_Witness ==
    /\ merged.called /\ mode = "color" /\ merged.merge
    /\ quad[1].b # quad[2].b /\ quad[1].r # quad[3].r
    /\ similarityThreshold = 1

(***************************************************************************)
(* Properties of GetColor                                                  *)
(***************************************************************************)

\* every pixel of r has the color of its first pixel
UniformRect(px, r) ==
    \A x \in r.x .. (r.x + r.w - 1) : \A y \in r.y .. (r.y + r.h - 1) :
        PixelAt(px, x, y, Black) = PixelAt(px, r.x, r.y, Black)

\* C11 (as stated): in both policies GetColor on a non-empty rect inside the
\* frame whose pixels all have the color C returns exactly C.
C11_UniformRectColorExact ==
    (colorOut.called /\ UniformRect(pixels, colorRect)) =>
        colorOut.color = PixelAt(pixels, colorRect.x, colorRect.y, Black)

\* C11 (amended): on such a rect the color policy returns exactly C and the
\* monochrome policy returns the gray of C's first channel, which is C
\* exactly when C is a gray.
C11_UniformRectColorPerPolicy ==
    (colorOut.called /\ UniformRect(pixels, colorRect)) =>
        LET C == PixelAt(pixels, colorRect.x, colorRect.y, Black)
        IN  /\ mode = "color" => colorOut.color = C
            /\ mode = "bw" => colorOut.color = Gray(C.r)

\* the color policy was asked for a uniform rect of several pixels of a
\* color that is no gray, inside a frame that is not uniform
C11_Witness ==
    /\ colorOut.called /\ mode = "color"
    /\ UniformRect(pixels, colorRect)
    /\ colorRect.w * colorRect.h >= 2
    /\ colorOut.color.r # colorOut.color.g
    /\ ~UniformRect(pixels, Rect(0, 0, frameW, frameH))

(***************************************************************************)
(* Properties of the decomposition                                         *)
(***************************************************************************)

\* C12: on a frame of one color, every tile larger than minSize on both
\* axes is rendered as exactly one leaf: RenderLeaf is called once for the
\* tile, with the tile's bounds and the frame's color.
C12_UniformTileOneLeaf ==
    (/\ lastCall.called
     /\ \A i \in 1 .. Len(original) : original[i] = original[1]
     /\ lastCall.bounds.w > minSize /\ lastCall.bounds.h > minSize) =>
        lastCall.leaves = <<LeafData(original[1], lastCall.bounds)>>

\* ProcessFrame(Image) run again from the frame px over the tiles ts, an
\* undefined read yielding bey: the frame it returns
RECURSIVE Replay(_, _, _)
Replay(px, ts, bey) ==
    IF ts = <<>> THEN px
    ELSE LET c   == ProcessFrameRec(px, Head(ts), MaxStack, bey)
             top == IF c.result.has THEN <<c.result>> ELSE <<>>
         IN  Replay(RenderAll(c.px, top), Tail(ts), bey)

\* C13: the frame ProcessFrame returns depends only on the input frame, the
\* leaf template, the parameters and the policy: a second execution on the
\* same inputs, whatever else differs in it, returns the same bytes.
C13_OutputFromInputsOnly ==
    tilePc = "done" =>
        \A bey \in {Black, White} : Replay(original, tiles, bey) = pixels

\* C16: a run with min-size <= 0 is rejected before any processing: the
\* recursive decomposition is never entered with minSize <= 0.
C16_NonPositiveMinSizeRejected ==
    lastCall.called => minSize >= 1

\* the least d with b * 2^d >= a: ceil(log2(a / b)), 0 when a <= b
RECURSIVE CeilLog2(_, _)
CeilLog2(a, b) == IF a <= b THEN 0 ELSE 1 + CeilLog2(a, 2 * b)

\* C17: for minSize >= 1 and a tile with w >= 1 and h >= 1 the recursive
\* ProcessFrame returns, every region it visits has w >= 1 and h >= 1, and
\* its recursion depth is at most ceil(log2(min(w, h) / minSize)).
C17_RecursionBounded ==
    (/\ lastCall.called /\ minSize >= 1
     /\ lastCall.bounds.w >= 1 /\ lastCall.bounds.h >= 1) =>
        /\ ~lastCall.overflow
        /\ lastCall.positive
        /\ lastCall.depth <= CeilLog2(lastCall.bounds.w, minSize)
        /\ lastCall.depth <= CeilLog2(lastCall.bounds.h, minSize)

\* a tile was decomposed two levels deep, which is the bound for it
C17_Witness ==
    /\ lastCall.called /\ minSize >= 1 /\ ~lastCall.overflow
    /\ lastCall.depth = 2
    /\ CeilLog2(lastCall.bounds.w, minSize) = 2
    /\ CeilLog2(lastCall.bounds.h, minSize) >= 2

\* C18: a subdivided region returns a pending leaf (the merged color, its
\* own bounds) and renders nothing exactly when its four children returned
\* pending leaves and Merge approved; otherwise it renders each child that
\* returned a pending leaf, once and in order, nothing else, and returns
\* nullopt.
C18_MergeOrRenderChildren ==
    (lastCall.called /\ ~lastCall.overflow) =>
        \A i \in 1 .. Len(lastCall.nodes) :
            LET n == lastCall.nodes[i]
                allPending == \A k \in 1 .. 4 : n.kids[k].has
                m == Merge(mode, similarityThreshold, n.kids[1].color,
                           n.kids[2].color, n.kids[3].color, n.kids[4].color)
            IN  IF allPending /\ m.merge
                THEN n.result = LeafData(m.color, n.bounds) /\ n.own = <<>>
                ELSE /\ n.result = Nullopt
                     /\ n.own = SelectSeq(n.kids, LAMBDA q : q.has)

\* a region one of whose children had rendered itself was refused the merge
\* and rendered its other three children
C18_Witness ==
    /\ lastCall.called /\ ~lastCall.overflow
    /\ \E i \in 1 .. Len(lastCall.nodes) :
           /\ ~lastCall.nodes[i].result.has
           /\ \E k \in 1 .. 4 : ~lastCall.nodes[i].kids[k].has
           /\ Len(lastCall.nodes[i].own) = 3

\* r lies inside the frame
RectInFrame(r) ==
    /\ r.x >= 0 /\ r.y >= 0
    /\ r.x + r.w <= frameW /\ r.y + r.h <= frameH

\* C19: when ProcessFrame(frame) returns, the rectangles passed to
\* RenderLeaf are pairwise disjoint and their union is the whole frame:
\* none leaves the frame and every pixel lies in exactly one of them.
C19_LeavesPartitionFrame ==
    tilePc = "done" =>
        /\ \A i \in 1 .. Len(rendered) : RectInFrame(rendered[i].bounds)
        /\ \A x \in 0 .. (frameW - 1) : \A y \in 0 .. (frameH - 1) :
               Cardinality({i \in 1 .. Len(rendered) :
                               InRect(x, y, rendered[i].bounds)}) = 1

\* C20: the tint of every rendered leaf differs from the exact mean of the
\* input frame's pixels inside the leaf's bounds by at most 1 per channel,
\* compared after multiplying by the number of pixels (checked on the leaves that lie inside the frame, with minSize >= 1).
C20_TintIsRegionMean ==
    minSize >= 1 =>
        \A i \in 1 .. Len(rendered) :
            RectInFrame(rendered[i].bounds) =>
                \A ch \in {"r", "g", "b"} :
                    LET d == rendered[i]
                        n == d.bounds.w * d.bounds.h
                        sum == SumChannel(original, d.bounds, ch, n, Black)
                        diff == d.color[ch] * n - sum
                    IN  diff <= n /\ 0 - diff <= n

(***************************************************************************)
(* Properties of Image::overlay                                            *)
(***************************************************************************)

\* C15: overlay with a source whose pixels all have alpha 0 leaves every
\* byte of the destination unchanged, for every destination and offset.
C15_TransparentSourceKeepsDst ==
    (/\ ovOut.called
     /\ ovSrc.ch = 4
     /\ \A p \in 1 .. ovSrc.w * ovSrc.h : ovSrc.data[4 * p] = 0) =>
        ovOut.data = ovDst.data

(***************************************************************************)
(* Properties of the subdivision                                           *)
(***************************************************************************)

\* the points of rectangle r
PointsOf(r) == {p \in (r.x .. (r.x + r.w - 1)) \X (r.y .. (r.y + r.h - 1)) : TRUE}

\* C24: a subdivided region (x, y, w, h) is split into (x, y, w div 2,
\* h div 2), (x + w div 2, y, w - w div 2, h div 2), (x, y + h div 2,
\* w div 2, h - h div 2) and (x + w div 2, y + h div 2, w - w div 2,
\* h - h div 2): they are pairwise disjoint, cover the parent exactly, and
\* the right and bottom children get the extra unit of an odd w or h.
C24_FourQuadrants ==
    (lastCall.called /\ ~lastCall.overflow) =>
        \A i \in 1 .. Len(lastCall.nodes) :
            LET b  == lastCall.nodes[i].bounds
                q  == lastCall.nodes[i].quads
                hw == b.w \div 2
                hh == b.h \div 2
            IN  /\ q = <<Rect(b.x, b.y, hw, hh),
                         Rect(b.x + hw, b.y, b.w - hw, hh),
                         Rect(b.x, b.y + hh, hw, b.h - hh),
                         Rect(b.x + hw, b.y + hh, b.w - hw, b.h - hh)>>
                /\ \A j, k \in 1 .. 4 :
                       j # k => PointsOf(q[j]) \cap PointsOf(q[k]) = {}
                /\ UNION {PointsOf(q[j]) : j \in 1 .. 4} = PointsOf(b)
                /\ b.w % 2 = 1 => q[2].w = q[1].w + 1 /\ q[4].w = q[3].w + 1
                /\ b.h % 2 = 1 => q[3].h = q[1].h + 1 /\ q[4].h = q[2].h + 1

\* a region of odd width and odd height was subdivided
C24_Witness ==
    /\ lastCall.called /\ ~lastCall.overflow /\ minSize >= 1
    /\ \E i \in 1 .. Len(lastCall.nodes) :
           /\ lastCall.nodes[i].bounds.w = 3
           /\ lastCall.nodes[i].bounds.h = 3
           /\ lastCall.nodes[i].quads[4].w = 2
           /\ lastCall.nodes[i].quads[4].h = 2

\* the pixels of the buffer that GetColor(frame, r) reads: Image::pixel
\* addresses pixel x + y * mWidth
PixelsRead(r) ==
    {p[1] + p[2] * frameW : p \in PointsOf(r)} \cap (0 .. (frameW * frameH - 1))

\* the pixels of the buffer that RenderLeaf(frame, data) writes, r being
\* data.bounds: rect and overlay clip to the frame
PixelsWritten(r) ==
    {p[1] + p[2] * frameW :
        p \in {pt \in PointsOf(r) : /\ pt[1] >= 0 /\ pt[1] < frameW
                                    /\ pt[2] >= 0 /\ pt[2] < frameH}}

\* C30: during ProcessFrame(frame) GetColor is called only on terminal
\* regions and reads only pixels that no RenderLeaf call has overwritten
\* yet: every leaf color is computed from the original input pixels.
C30_ColorsFromOriginalPixels ==
    \A i \in 1 .. Len(lastCall.log) :
        ~lastCall.log[i].write =>
            /\ IsLeaf(lastCall.log[i].bounds)
            /\ \A j \in 1 .. (i - 1) :
                   lastCall.log[j].write =>
                       PixelsRead(lastCall.log[i].bounds)
                           \cap PixelsWritten(lastCall.log[j].bounds) = {}

(***************************************************************************)
(* Properties of the pixel arithmetic                                      *)
(***************************************************************************)

\* destination pixel dp lies under the source placed at (ovX, ovY)
Covered(dp) ==
    LET sx == (dp % ovDst.w) - ovX
        sy == (dp \div ovDst.w) - ovY
    IN  sx >= 0 /\ sx < ovSrc.w /\ sy >= 0 /\ sy < ovSrc.h

\* the source pixel laid over destination pixel dp
SourcePixel(dp) ==
    ((dp % ovDst.w) - ovX) + ((dp \div ovDst.w) - ovY) * ovSrc.w

\* C25: overlay treats a 3-channel source as opaque: on a 4-channel
\* destination every covered pixel gets the source pixel's color and alpha
\* 255, and only the 3 bytes of that source pixel are read.
C25_OpaqueSourceCopied ==
    (ovOut.called /\ ovSrc.ch = 3 /\ ovDst.ch = 4) =>
        /\ BytesCopied(ovDst) <= ovSrc.ch
        /\ \A dp \in 0 .. (ovDst.w * ovDst.h - 1) :
               Covered(dp) =>
                   /\ \A k \in 1 .. 3 :
                          ovOut.data[4 * dp + k] = ovSrc.data[3 * SourcePixel(dp) + k]
                   /\ ovOut.data[4 * dp + 4] = 255

\* C29: for a source pixel with alpha srcA < 255 laid over an opaque
\* destination pixel, each resulting color channel is
\* (srcA * src + (255 - srcA) * dst) / 255 rounded to the nearest integer,
\* and lies in 0 .. 255.
C29_BlendRoundsToNearest ==
    (ovOut.called /\ ovSrc.ch = 4) =>
        \A dp \in 0 .. (ovDst.w * ovDst.h - 1) :
            LET sp   == SourcePixel(dp)
                srcA == ovSrc.data[4 * sp + 4]
                opaque == ovDst.ch = 3 \/ ovDst.data[ovDst.ch * dp + 4] = 255
            IN  (Covered(dp) /\ srcA < 255 /\ opaque) =>
                    \A k \in 1 .. 3 :
                        LET out == ovOut.data[ovDst.ch * dp + k]
                            src == ovSrc.data[4 * sp + k]
                            dst == ovDst.data[ovDst.ch * dp + k]
                            num == srcA * src + (255 - srcA) * dst
                        IN  /\ out \in 0 .. 255
                            /\ out = (2 * num + 255) \div (2 * 255)

\* C28: colorMaskNew(r, g, b) returns a surface in which every channel value
\* v is floor(v * k / 255), k being the matching component of the color:
\* the pixels the last RenderLeaf call copied from the tinted sprite have
\* that value.
C28_TintDividesBy255 ==
    (lastCall.called /\ rendered # <<>>) =>
        LET d == rendered[Len(rendered)]
        IN  \A i \in 1 .. Len(pixels) :
                InRect((i - 1) % frameW, (i - 1) \div frameW, d.bounds) =>
                    \A ch \in {"r", "g", "b"} :
                        pixels[i][ch] = (TemplateColor[ch] * d.color[ch]) \div 255

====
